---- MODULE Spec2Model ----
(***************************************************************************)
(* State-based authorization of angular-permission (ui-router extension).  *)
(*                                                                         *)
(*   PermStateAuthorization   src/src/permission-ui/authorization/         *)
(*                            StateAuthorization.js                        *)
(*   PermPermissionMap        src/unnamed/part_000                         *)
(*   PermStatePermissionMap   src/dist/angular-permission-ui.js            *)
(*                                                                         *)
(* Promise values are records [t, v]: t is "name" (v = <<n>>), "array"      *)
(* (v = the elements) or "undefined" (v = <<>>).                            *)
(***************************************************************************)
EXTENDS Naturals, Sequences, FiniteSets, TLC

VARIABLES
    map,              \* the StatePermissionMap handed to authorizeByPermissionMap
    roleStore,        \* PermRoleStore: name -> "absent" | "accept" | "reject"
    permissionStore,  \* PermPermissionStore: name -> "absent" | "accept" | "reject"
    deferred,         \* the deferred of authorizeStatePermissionMap
    allSt,            \* state of $q.all(exceptPromises) / $q.all(onlyPromises)
    chain,            \* the promise chain resolveStatePermissionMap built, per phase
    policy,           \* raw policy object given to the PermissionMap constructor
    pmap,             \* the PermissionMap the constructor produced
    redirect,         \* the last resolveRedirectState call and its outcome
    transition,       \* one call of the decorated $state.transitionTo
    PermTransitionProperties,  \* the holder of the transition parameters, one for all calls
    other             \* the call whose callbacks are not the ones running, if there are two

authVars == <<map, roleStore, permissionStore, deferred, allSt, chain>>
redirectVars == <<policy, pmap, redirect>>
overlapVars == <<PermTransitionProperties, other>>
vars == <<map, roleStore, permissionStore, deferred, allSt, chain, policy, pmap, redirect, transition,
          PermTransitionProperties, other>>

----------------------------------------------------------------------------
(* Bounds and input sets *)

\* most groups in map.only and map.except together
MaxGroups == 3

Names == {"a", "b"}

Phases == {"except", "only"}

\* the arrays of names a state puts in data.permissions.only / .except
Groups == {<<"a">>, <<"b">>, <<"a", "b">>}

GroupSeqs(n) == UNION {[1..k -> Groups] : k \in 0..n}

StoreEntries == {"absent", "accept", "reject"}

----------------------------------------------------------------------------
(* Promise values *)

Undefined == [t |-> "undefined", v |-> <<>>]

NameVal(n) == [t |-> "name", v |-> <<n>>]

ArrayVal(s) == [t |-> "array", v |-> s]

\* the elements of an array of values, as names ("undefined" for undefined)
Flatten(vals) == [i \in 1..Len(vals) |-> IF vals[i].t = "name" THEN vals[i].v[1] ELSE "undefined"]

\* element i of an array value
ElementOf(val, i) ==
    IF val.t = "array" /\ i <= Len(val.v) /\ val.v[i] # "undefined"
    THEN NameVal(val.v[i])
    ELSE Undefined

----------------------------------------------------------------------------
(* The stores and PermissionMap.prototype.resolvePropertyValidity *)

\* role.validateRole(): settles with the role's name either way
validateRole(n) ==
    [st |-> "pending", will |-> IF roleStore[n] = "accept" THEN "resolved" ELSE "rejected",
     val |-> NameVal(n), via |-> "role"]

\* permission.validatePermission(): settles with the permission's name either way
validatePermission(n) ==
    [st |-> "pending", will |-> IF permissionStore[n] = "accept" THEN "resolved" ELSE "rejected",
     val |-> NameVal(n), via |-> "permission"]

\* mutant: an unregistered name yields $q.resolve(privilegeName)
resolvePropertyValidityUnregisteredPasses(property) ==
    [k \in 1..Len(property) |->
        IF roleStore[property[k]] # "absent" THEN validateRole(property[k])
        ELSE IF permissionStore[property[k]] # "absent" THEN validatePermission(property[k])
        ELSE [st |-> "pending", will |-> "resolved", val |-> NameVal(property[k]), via |-> "none"]]

\* mutant: the permission store is asked before the role store
resolvePropertyValidityPermissionFirst(property) ==
    [k \in 1..Len(property) |->
        IF permissionStore[property[k]] # "absent" THEN validatePermission(property[k])
        ELSE IF roleStore[property[k]] # "absent" THEN validateRole(property[k])
        ELSE [st |-> "pending", will |-> "rejected", val |-> NameVal(property[k]), via |-> "none"]]

\* mutant: an unregistered name yields $q.reject() without the name
resolvePropertyValidityUnregisteredAnonymous(property) ==
    [k \in 1..Len(property) |->
        IF roleStore[property[k]] # "absent" THEN validateRole(property[k])
        ELSE IF permissionStore[property[k]] # "absent" THEN validatePermission(property[k])
        ELSE [st |-> "pending", will |-> "rejected", val |-> Undefined, via |-> "none"]]

\* one promise per name of the group: role store first, then the permission
\* store, else $q.reject(privilegeName)
resolvePropertyValidity(property) ==
    [k \in 1..Len(property) |->
        IF roleStore[property[k]] # "absent" THEN validateRole(property[k])
        ELSE IF permissionStore[property[k]] # "absent" THEN validatePermission(property[k])
        ELSE [st |-> "pending", will |-> "rejected", val |-> NameVal(property[k]), via |-> "none"]]

----------------------------------------------------------------------------
(* $q.any over the promises of one group *)

\* mutant: the combinator keeps the reason of the first rejection
qAnyFirstRejection(any, check) ==
    IF check.will = "resolved"
    THEN IF any.st = "pending"
         THEN [st |-> "resolved", val |-> check.val, counter |-> any.counter]
         ELSE any
    ELSE IF any.st = "pending" /\ any.counter = 1
         THEN [st |-> "rejected", val |-> IF any.val = Undefined THEN check.val ELSE any.val,
               counter |-> 0]
         ELSE [any EXCEPT !.counter = any.counter - 1,
                          !.val = IF any.st = "pending" /\ any.val = Undefined THEN check.val ELSE any.val]

\* the combinator after the promise `check` has settled: the first success
\* resolves it, the rejection that brings the counter to zero rejects it
qAny(any, check) ==
    IF check.will = "resolved"
    THEN IF any.st = "pending"
         THEN [st |-> "resolved", val |-> check.val, counter |-> any.counter]
         ELSE any
    ELSE IF any.st = "pending" /\ any.counter = 1
         THEN [st |-> "rejected", val |-> check.val, counter |-> 0]
         ELSE [any EXCEPT !.counter = any.counter - 1]

\* .then(function (resolvedPermissions) {...}): an array yields its first element
unwrap(val) == IF val.t = "array" THEN ElementOf(val, 1) ELSE val

----------------------------------------------------------------------------
(* resolveStatePermissionMap *)

NoChain == [promises |-> <<>>, started |-> 0, checks |-> <<>>, anys |-> <<>>, order |-> <<>>]

\* the promise array returned, before any callback has run
resolveStatePermissionMap(privilegesNames) ==
    IF Len(privilegesNames) = 0
    THEN [NoChain EXCEPT !.promises = <<[st |-> "rejected", val |-> Undefined]>>]
    ELSE [promises |-> [i \in 1..Len(privilegesNames) |-> [st |-> "pending", val |-> Undefined]],
          started  |-> 0,
          checks   |-> [i \in 1..Len(privilegesNames) |-> <<>>],
          anys     |-> [i \in 1..Len(privilegesNames) |->
                           [st |-> "pending", val |-> Undefined, counter |-> 0]],
          order    |-> [i \in 1..Len(privilegesNames) |-> <<>>]]

----------------------------------------------------------------------------
(* $q promises used by authorizeStatePermissionMap *)

\* deferred.resolve(val): a settled deferred ignores the call
Resolve(d, val) ==
    IF d.st = "pending"
    THEN [st |-> "resolved", val |-> val, calls |-> d.calls + 1]
    ELSE [d EXCEPT !.calls = d.calls + 1]

\* deferred.reject(val): a settled deferred ignores the call
Reject(d, val) ==
    IF d.st = "pending"
    THEN [st |-> "rejected", val |-> val, calls |-> d.calls + 1]
    ELSE [d EXCEPT !.calls = d.calls + 1]

\* index of the first rejected promise of a promise array, 0 if there is none
FirstRejected(promises) ==
    IF \E j \in 1..Len(promises) : promises[j].st = "rejected"
    THEN CHOOSE j \in 1..Len(promises) :
            /\ promises[j].st = "rejected"
            /\ \A h \in 1..(j - 1) : promises[h].st # "rejected"
    ELSE 0

\* mutant: the combinator is taken for $q.any, one resolved promise suffices
qAllOneSuffices(promises) ==
    IF \E j \in 1..Len(promises) : promises[j].st = "resolved"
    THEN [st |-> "resolved",
          val |-> ArrayVal(Flatten(<<promises[CHOOSE j \in 1..Len(promises) : promises[j].st = "resolved"].val>>))]
    ELSE IF \A j \in 1..Len(promises) : promises[j].st = "rejected"
         THEN [st |-> "rejected", val |-> promises[Len(promises)].val]
         ELSE [st |-> "pending", val |-> Undefined]

\* mutant: the rejection reported is that of the last promise rejected so far
qAllLastRejection(promises) ==
    IF FirstRejected(promises) # 0
    THEN [st |-> "rejected",
          val |-> promises[CHOOSE j \in 1..Len(promises) :
                              /\ promises[j].st = "rejected"
                              /\ \A h \in (j + 1)..Len(promises) : promises[h].st # "rejected"].val]
    ELSE IF \A j \in 1..Len(promises) : promises[j].st = "resolved"
         THEN [st |-> "resolved", val |-> ArrayVal(Flatten([j \in 1..Len(promises) |-> promises[j].val]))]
         ELSE [st |-> "pending", val |-> Undefined]

\* $q.all(promises): rejected with the first rejection, resolved with the
\* array of all values once every promise is resolved
qAll(promises) ==
    IF FirstRejected(promises) # 0
    THEN [st |-> "rejected", val |-> promises[FirstRejected(promises)].val]
    ELSE IF \A j \in 1..Len(promises) : promises[j].st = "resolved"
         THEN [st |-> "resolved", val |-> ArrayVal(Flatten([j \in 1..Len(promises) |-> promises[j].val]))]
         ELSE [st |-> "pending", val |-> Undefined]

\* mutant: .then(resolve) without the reject callback
groupPromiseNoReject(p, any) ==
    IF p.st # "pending" \/ any.st # "resolved" THEN p
    ELSE [st |-> "resolved", val |-> unwrap(any.val)]

\* the promise of group i once its $q.any has settled: .then(unwrap).then(resolve, reject)
groupPromise(p, any) ==
    IF p.st # "pending" \/ any.st = "pending" THEN p
    ELSE IF any.st = "resolved"
         THEN [st |-> "resolved", val |-> unwrap(any.val)]
         ELSE [st |-> "rejected", val |-> any.val]

\* mutant: the whole array of matched names is passed on
exceptThenWholeArray(d, rejectedPermissions) == Reject(d, rejectedPermissions)

\* the .then callback of resolveExceptStatePermissionMap:
\* deferred.reject(rejectedPermissions[0])
exceptThen(d, rejectedPermissions) == Reject(d, ElementOf(rejectedPermissions, 1))

\* the .then callback of resolveOnlyStatePermissionMap
onlyThen(d, resolvedPermissions) == Resolve(d, resolvedPermissions)

\* the .catch callback of resolveOnlyStatePermissionMap
onlyCatch(d, rejectedPermission) == Reject(d, rejectedPermission)

\* the handlers $q.all registered on a promise run after the finally callback
\* that starts the next group, which was registered on it first
AllMaySettle(ph) ==
    LET j == FirstRejected(chain[ph].promises)
    IN  j = 0 \/ j >= Len(map[ph]) \/ chain[ph].started > j

----------------------------------------------------------------------------
(* Actions of the authorization engine *)

\* authorizeByPermissionMap(statePermissionMap): the deferred is created and
\* resolveExceptStatePermissionMap builds the chain over map.except
Authorize ==
    /\ deferred.st = "unset"
    /\ deferred' = [deferred EXCEPT !.st = "pending"]
    /\ chain' = [chain EXCEPT !.except = resolveStatePermissionMap(map.except)]
    /\ allSt' = [allSt EXCEPT !.except = "pending"]
    /\ UNCHANGED <<map, roleStore, permissionStore, redirectVars, transition, overlapVars>>

\* mutant: the group taken for evaluation is removed from the map
StartGroupConsuming(ph) ==
    LET c == chain[ph]
        i == c.started + 1
    IN  /\ allSt[ph] # "none"
        /\ i <= Len(c.checks)
        /\ IF i = 1 THEN TRUE ELSE c.promises[i - 1].st # "pending"
        /\ chain' = [chain EXCEPT ![ph] =
                        [c EXCEPT !.started = i,
                                  !.checks[i] = resolvePropertyValidity(map[ph][i]),
                                  !.anys[i].counter = Len(map[ph][i])]]
        /\ map' = [map EXCEPT ![ph][i] = <<>>]
        /\ UNCHANGED <<roleStore, permissionStore, deferred, allSt, redirectVars, transition, overlapVars>>

\* mutant: the groups are all evaluated at once
StartGroupConcurrent(ph) ==
    LET c == chain[ph]
        i == c.started + 1
    IN  /\ allSt[ph] # "none"
        /\ i <= Len(c.checks)
        /\ chain' = [chain EXCEPT ![ph] =
                        [c EXCEPT !.started = i,
                                  !.checks[i] = resolvePropertyValidity(map[ph][i]),
                                  !.anys[i].counter = Len(map[ph][i])]]
        /\ UNCHANGED <<map, roleStore, permissionStore, deferred, allSt, redirectVars, transition, overlapVars>>

\* mutant: prev.then(undefined, ...) in place of prev.finally(...): a group is
\* evaluated only after a group that failed
StartGroupAfterFailure(ph) ==
    LET c == chain[ph]
        i == c.started + 1
    IN  /\ allSt[ph] # "none"
        /\ i <= Len(c.checks)
        /\ IF i = 1 THEN TRUE ELSE c.promises[i - 1].st = "rejected"
        /\ chain' = [chain EXCEPT ![ph] =
                        [c EXCEPT !.started = i,
                                  !.checks[i] = resolvePropertyValidity(map[ph][i]),
                                  !.anys[i].counter = Len(map[ph][i])]]
        /\ UNCHANGED <<map, roleStore, permissionStore, deferred, allSt, redirectVars, transition, overlapVars>>

\* the prev.finally callback of group i: resolvePropertyValidity starts one
\* validation per name and $q.any is taken over them
StartGroup(ph) ==
    LET c == chain[ph]
        i == c.started + 1
    IN  /\ allSt[ph] # "none"
        /\ i <= Len(c.checks)
        /\ IF i = 1 THEN TRUE ELSE c.promises[i - 1].st # "pending"
        /\ chain' = [chain EXCEPT ![ph] =
                        [c EXCEPT !.started = i,
                                  !.checks[i] = resolvePropertyValidity(map[ph][i]),
                                  !.anys[i].counter = Len(map[ph][i])]]
        /\ UNCHANGED <<map, roleStore, permissionStore, deferred, allSt, redirectVars, transition, overlapVars>>

\* the validation of name k of group i settles (the callbacks $q.any put on it
\* run), in any order among the names of the group; $q.any and the group's
\* promise follow
SettleCheck(ph, i, k) ==
    LET c == chain[ph]
    IN  /\ i \in 1..c.started
        /\ k \in 1..Len(c.checks[i])
        /\ c.checks[i][k].st = "pending"
        /\ chain' = [chain EXCEPT ![ph] =
                        [c EXCEPT !.checks[i][k].st = c.checks[i][k].will,
                                  !.anys[i] = qAny(c.anys[i], c.checks[i][k]),
                                  !.promises[i] = groupPromise(c.promises[i], qAny(c.anys[i], c.checks[i][k])),
                                  !.order[i] = Append(c.order[i], k)]]
        /\ UNCHANGED <<map, roleStore, permissionStore, deferred, allSt, redirectVars, transition, overlapVars>>

\* $q.all(exceptPromises) resolved: deferred.reject(rejectedPermissions[0])
ExceptThen ==
    /\ allSt.except = "pending"
    /\ qAll(chain.except.promises).st = "resolved"
    /\ allSt' = [allSt EXCEPT !.except = "resolved"]
    /\ deferred' = exceptThen(deferred, qAll(chain.except.promises).val)
    /\ UNCHANGED <<map, roleStore, permissionStore, chain, redirectVars, transition, overlapVars>>

\* mutant: map.only is evaluated without looking at its length
resolveOnlyStatePermissionMapNoLengthCheck ==
    /\ chain' = [chain EXCEPT !.only = resolveStatePermissionMap(map.only)]
    /\ allSt' = [allSt EXCEPT !.except = "rejected", !.only = "pending"]
    /\ UNCHANGED deferred

\* resolveOnlyStatePermissionMap(deferred, map), up to the $q.all it sets up
resolveOnlyStatePermissionMap ==
    IF Len(map.only) = 0
    THEN /\ deferred' = Resolve(deferred, Undefined)
         /\ allSt' = [allSt EXCEPT !.except = "rejected"]
         /\ UNCHANGED chain
    ELSE /\ chain' = [chain EXCEPT !.only = resolveStatePermissionMap(map.only)]
         /\ allSt' = [allSt EXCEPT !.except = "rejected", !.only = "pending"]
         /\ UNCHANGED deferred

\* $q.all(exceptPromises) rejected: resolveOnlyStatePermissionMap(deferred, map)
ExceptCatch ==
    /\ allSt.except = "pending"
    /\ qAll(chain.except.promises).st = "rejected"
    /\ AllMaySettle("except")
    /\ resolveOnlyStatePermissionMap
    /\ UNCHANGED <<map, roleStore, permissionStore, redirectVars, transition, overlapVars>>

\* $q.all(onlyPromises) resolved: deferred.resolve(resolvedPermissions)
OnlyThen ==
    /\ allSt.only = "pending"
    /\ qAll(chain.only.promises).st = "resolved"
    /\ allSt' = [allSt EXCEPT !.only = "resolved"]
    /\ deferred' = onlyThen(deferred, qAll(chain.only.promises).val)
    /\ UNCHANGED <<map, roleStore, permissionStore, chain, redirectVars, transition, overlapVars>>

\* $q.all(onlyPromises) rejected: deferred.reject(rejectedPermission)
OnlyCatch ==
    /\ allSt.only = "pending"
    /\ qAll(chain.only.promises).st = "rejected"
    /\ AllMaySettle("only")
    /\ allSt' = [allSt EXCEPT !.only = "rejected"]
    /\ deferred' = onlyCatch(deferred, qAll(chain.only.promises).val)
    /\ UNCHANGED <<map, roleStore, permissionStore, chain, redirectVars, transition, overlapVars>>

----------------------------------------------------------------------------
(* Specification of one authorizeByPermissionMap call *)

NoPolicy == "none"

InitRedirectIdle ==
    /\ policy = NoPolicy
    /\ pmap = NoPolicy
    /\ redirect = NoPolicy
    /\ transition = NoPolicy
    /\ PermTransitionProperties = NoPolicy
    /\ other = NoPolicy

Init ==
    /\ map \in {[only |-> o, except |-> e] :
                    o \in GroupSeqs(MaxGroups), e \in GroupSeqs(MaxGroups)}
    /\ Len(map.only) + Len(map.except) <= MaxGroups
    /\ roleStore \in [Names -> StoreEntries]
    /\ permissionStore \in [Names -> StoreEntries]
    /\ deferred = [st |-> "unset", val |-> Undefined, calls |-> 0]
    /\ allSt = [except |-> "none", only |-> "none"]
    /\ chain = [except |-> NoChain, only |-> NoChain]
    /\ InitRedirectIdle

Next ==
    \/ Authorize
    \/ \E ph \in Phases : StartGroup(ph)
    \/ \E ph \in Phases, i \in 1..MaxGroups, k \in 1..Cardinality(Names) : SettleCheck(ph, i, k)
    \/ ExceptThen
    \/ ExceptCatch
    \/ OnlyThen
    \/ OnlyCatch

Spec == Init /\ [][Next]_vars

\* one call in which every validation that is started settles and every
\* callback that is queued runs
InitLive ==
    /\ Init
    /\ permissionStore = [n \in Names |-> "absent"]

SpecLive == InitLive /\ [][Next]_vars /\ WF_vars(Next)

----------------------------------------------------------------------------
(* Raw policy objects: the permissionMap argument of the PermissionMap constructor *)

StateNames == {"login", "dashboard"}

\* a string redirection
Str(s) == [kind |-> "string", state |-> s, ret |-> "none"]

\* a redirection object {state: s, params: ...}
Obj(s) == [kind |-> "object", state |-> s, ret |-> "none"]

\* a function (kind "function") or an injectable array (kind "injectable")
\* returning a string s, an object {state: s, ...}, undefined or a number
Fn(kind, ret, s) == [kind |-> kind, state |-> s, ret |-> ret]

\* a value that is none of these
Num == [kind |-> "number", state |-> "none", ret |-> "none"]

Callables ==
    {Fn(k, r, s) : k \in {"function", "injectable"}, r \in {"string", "object"}, s \in StateNames}
        \cup {Fn(k, r, "none") : k \in {"function", "injectable"}, r \in {"undefined", "number"}}

Entries == {Str(s) : s \in StateNames} \cup {Obj(s) : s \in StateNames} \cup Callables \cup {Num}

\* the property names a redirectTo object may define besides state
RedirectKeys == {"default", "a"}

\* the own properties of a redirectTo object
FieldMaps ==
    UNION {[D -> Entries] : D \in SUBSET RedirectKeys}
        \cup UNION {{f \in [D \cup {"state"} -> Entries] : f["state"].kind = "string"} :
                        D \in SUBSET RedirectKeys}

NoFields == [k \in {} |-> Num]

Absent == [kind |-> "undefined", state |-> "none", ret |-> "none", fields |-> NoFields]

\* permissionMap.redirectTo
RedirectTos ==
    {Absent}
        \cup {[kind |-> e.kind, state |-> e.state, ret |-> e.ret, fields |-> NoFields] :
                e \in {Str(s) : s \in StateNames} \cup Callables}
        \cup {[kind |-> "object", state |-> "none", ret |-> "none", fields |-> f] : f \in FieldMaps}

\* permissionMap.only / permissionMap.except
RawProperties ==
    { [kind |-> "undefined", ret |-> "none", names |-> <<>>],
      [kind |-> "string", ret |-> "none", names |-> <<"a">>],
      [kind |-> "array", ret |-> "none", names |-> <<"a", "b">>],
      [kind |-> "function", ret |-> "string", names |-> <<"a">>],
      [kind |-> "function", ret |-> "array", names |-> <<"b">>] }

----------------------------------------------------------------------------
(* PermissionMap: normalization of only, except and redirectTo *)

\* mutant: the isArray case is missing
normalizeOnlyAndExceptPropertyNoArrayCase(property) ==
    IF property.kind = "string" THEN ArrayVal(property.names)
    ELSE IF property.kind = "function"
         THEN IF property.ret = "string" THEN NameVal(property.names[1]) ELSE ArrayVal(property.names)
         ELSE ArrayVal(<<>>)

\* a string becomes a one-element array, an array is kept, the return value of
\* a function is taken as it is, anything else becomes []
normalizeOnlyAndExceptProperty(property) ==
    IF property.kind = "string" THEN ArrayVal(property.names)
    ELSE IF property.kind = "array" THEN ArrayVal(property.names)
    ELSE IF property.kind = "function"
         THEN IF property.ret = "string" THEN NameVal(property.names[1]) ELSE ArrayVal(property.names)
         ELSE ArrayVal(<<>>)

isInjectable(property) == property.kind = "injectable"

isObjectSingleRedirectionRule(redirectTo) == "state" \in DOMAIN redirectTo.fields

\* mutant: any property makes the object a multiple rule
isObjectMultipleRedirectionRuleAnyKey(redirectTo) == DOMAIN redirectTo.fields # {}

isObjectMultipleRedirectionRule(redirectTo) == "default" \in DOMAIN redirectTo.fields

\* A resolver is what invoking the dictionary entry returns: a string s
\* (ret "string"), an object with state s (ret "object") or undefined. id tells
\* the object: <<"new">> a fresh {state: s}, <<"redirectTo">> the policy's
\* redirectTo object, <<"redirectTo", k>> its property k, <<"returned">> an
\* object the user's function made.
Resolver(ret, s, id, inject) == [ret |-> ret, state |-> s, id |-> id, inject |-> inject]

\* redirectionMap.default = function () { return {state: redirectTo}; }
normalizeStringRedirectionRule(redirectTo) ==
    [k \in {"default"} |-> Resolver("object", redirectTo.state, <<"new">>, "none")]

\* redirectionMap.default = function () { return redirectTo; }
normalizeObjectSingleRedirectionRule(redirectTo) ==
    [k \in {"default"} |->
        Resolver("object", redirectTo.fields["state"].state, <<"redirectTo">>, "none")]

\* redirectionMap.default = redirectTo, with $inject set unless it is injectable
normalizeFunctionRedirectionRule(redirectTo) ==
    [k \in {"default"} |->
        Resolver(redirectTo.ret, redirectTo.state, <<"returned">>,
                 IF isInjectable(redirectTo) THEN "own" ELSE "set")]

\* one entry per property that is injectable, a function, an object or a string
normalizeObjectMultipleRedirectionRule(redirectTo) ==
    [k \in {h \in DOMAIN redirectTo.fields :
                redirectTo.fields[h].kind \in {"injectable", "function", "object", "string"}} |->
        LET redirection == redirectTo.fields[k]
        IN  IF isInjectable(redirection)
            THEN Resolver(redirection.ret, redirection.state, <<"returned">>, "own")
            ELSE IF redirection.kind = "function"
                 THEN Resolver(redirection.ret, redirection.state, <<"returned">>, "set")
                 ELSE IF redirection.kind = "object"
                      THEN Resolver("object", redirection.state, <<"redirectTo", k>>, "none")
                      ELSE Resolver("object", redirection.state, <<"new">>, "none")]

NoDict == [k \in {} |-> Resolver("undefined", "none", <<"new">>, "none")]

\* the value of this.redirectTo, or the ReferenceError thrown
Redirection(dict) == [status |-> "ok", defined |-> TRUE, dict |-> dict]

\* mutant: an object is tested for a default property before its state property
normalizeRedirectToPropertyMultipleFirst(redirectTo) ==
    IF redirectTo.kind = "string"
    THEN Redirection(normalizeStringRedirectionRule(redirectTo))
    ELSE IF isInjectable(redirectTo) \/ redirectTo.kind = "function"
         THEN Redirection(normalizeFunctionRedirectionRule(redirectTo))
         ELSE IF redirectTo.kind = "object"
              THEN IF isObjectMultipleRedirectionRule(redirectTo)
                   THEN Redirection(normalizeObjectMultipleRedirectionRule(redirectTo))
                   ELSE IF isObjectSingleRedirectionRule(redirectTo)
                        THEN Redirection(normalizeObjectSingleRedirectionRule(redirectTo))
                        ELSE [status |-> "ReferenceError", defined |-> FALSE, dict |-> NoDict]
              ELSE [status |-> "ok", defined |-> FALSE, dict |-> NoDict]

normalizeRedirectToProperty(redirectTo) ==
    IF redirectTo.kind = "string"
    THEN Redirection(normalizeStringRedirectionRule(redirectTo))
    ELSE IF isInjectable(redirectTo) \/ redirectTo.kind = "function"
         THEN Redirection(normalizeFunctionRedirectionRule(redirectTo))
         ELSE IF redirectTo.kind = "object"
              THEN IF isObjectSingleRedirectionRule(redirectTo)
                   THEN Redirection(normalizeObjectSingleRedirectionRule(redirectTo))
                   ELSE IF isObjectMultipleRedirectionRule(redirectTo)
                        THEN Redirection(normalizeObjectMultipleRedirectionRule(redirectTo))
                        ELSE [status |-> "ReferenceError", defined |-> FALSE, dict |-> NoDict]
              \* return redirectTo: undefined stays undefined
              ELSE [status |-> "ok", defined |-> FALSE, dict |-> NoDict]

----------------------------------------------------------------------------
(* Redirect resolution *)

NoTarget == [state |-> "none", id |-> <<>>]

\* mutant: whatever the function returned is passed on
resolveRedirectStatePassesAny(redirectFunction, rejectedPermissionName) ==
    IF redirectFunction.ret = "string"
    THEN [st |-> "resolved", target |-> [state |-> redirectFunction.state, id |-> <<"new">>]]
    ELSE [st |-> "resolved", target |-> [state |-> redirectFunction.state, id |-> redirectFunction.id]]

\* $q.when($injector.invoke(redirectFunction, ...)).then(...): a string is
\* wrapped in a fresh object, an object is passed on, anything else is rejected
resolveRedirectState(redirectFunction, rejectedPermissionName) ==
    IF redirectFunction.ret = "string"
    THEN [st |-> "resolved", target |-> [state |-> redirectFunction.state, id |-> <<"new">>]]
    ELSE IF redirectFunction.ret = "object"
         THEN [st |-> "resolved", target |-> [state |-> redirectFunction.state, id |-> redirectFunction.id]]
         ELSE [st |-> "rejected", target |-> NoTarget]

\* mutant: the default entry is preferred to the entry of the rejected name
PermissionMap_resolveRedirectStateDefaultFirst(redirectTo, rejectedPermissionName) ==
    IF ~redirectTo.defined
    THEN [st |-> "TypeError", target |-> NoTarget]
    ELSE IF "default" \in DOMAIN redirectTo.dict
         THEN resolveRedirectState(redirectTo.dict["default"], rejectedPermissionName)
         ELSE IF rejectedPermissionName \in DOMAIN redirectTo.dict
              THEN resolveRedirectState(redirectTo.dict[rejectedPermissionName], rejectedPermissionName)
              ELSE [st |-> "rejected", target |-> NoTarget]

\* PermissionMap.prototype.resolveRedirectState on a map whose redirectTo is
\* `redirectTo`: reading a property of undefined throws a TypeError
PermissionMap_resolveRedirectState(redirectTo, rejectedPermissionName) ==
    IF ~redirectTo.defined
    THEN [st |-> "TypeError", target |-> NoTarget]
    ELSE IF rejectedPermissionName \in DOMAIN redirectTo.dict
         THEN resolveRedirectState(redirectTo.dict[rejectedPermissionName], rejectedPermissionName)
         ELSE IF "default" \in DOMAIN redirectTo.dict
              THEN resolveRedirectState(redirectTo.dict["default"], rejectedPermissionName)
              ELSE [st |-> "rejected", target |-> NoTarget]

----------------------------------------------------------------------------
(* Actions on one PermissionMap *)

Unbuilt ==
    [status |-> "unbuilt", only |-> Undefined, except |-> Undefined,
     redirectTo |-> [status |-> "ok", defined |-> FALSE, dict |-> NoDict]]

NotCalled == [name |-> "none", st |-> "none", target |-> NoTarget, calls |-> 0]

\* new PermPermissionMap(policy): the three properties are normalized; a throw
\* of normalizeRedirectToProperty leaves no map
PermissionMap ==
    /\ pmap.status = "unbuilt"
    /\ pmap' = IF normalizeRedirectToProperty(policy.redirectTo).status = "ok"
               THEN [status |-> "built",
                     only |-> normalizeOnlyAndExceptProperty(policy.only),
                     except |-> normalizeOnlyAndExceptProperty(policy.except),
                     redirectTo |-> normalizeRedirectToProperty(policy.redirectTo)]
               ELSE [Unbuilt EXCEPT !.status = normalizeRedirectToProperty(policy.redirectTo).status]
    /\ UNCHANGED <<policy, redirect, authVars, transition, overlapVars>>

\* pmap.resolveRedirectState(rejectedPermissionName)
ResolveRedirectState(rejectedPermissionName) ==
    /\ pmap.status = "built"
    /\ redirect.calls = 0
    /\ redirect' =
          [name   |-> rejectedPermissionName,
           st     |-> PermissionMap_resolveRedirectState(pmap.redirectTo, rejectedPermissionName).st,
           target |-> PermissionMap_resolveRedirectState(pmap.redirectTo, rejectedPermissionName).target,
           calls  |-> 1]
    /\ UNCHANGED <<policy, pmap, authVars, transition, overlapVars>>

InitAuthIdle ==
    /\ map = [only |-> <<>>, except |-> <<>>]
    /\ roleStore = [n \in Names |-> "absent"]
    /\ permissionStore = [n \in Names |-> "absent"]
    /\ deferred = [st |-> "unset", val |-> Undefined, calls |-> 0]
    /\ allSt = [except |-> "none", only |-> "none"]
    /\ chain = [except |-> NoChain, only |-> NoChain]
    /\ transition = NoPolicy
    /\ PermTransitionProperties = NoPolicy
    /\ other = NoPolicy

InitRedirect ==
    /\ policy \in [only : RawProperties, except : RawProperties, redirectTo : RedirectTos]
    /\ pmap = Unbuilt
    /\ redirect = NotCalled
    /\ InitAuthIdle

NextRedirect ==
    \/ PermissionMap
    \/ \E p \in Names : ResolveRedirectState(p)

SpecRedirect == InitRedirect /\ [][NextRedirect]_vars

----------------------------------------------------------------------------
(* PermStatePermissionMap: the map of a state, built along its path *)

\* most states on the path of the state a transition goes to
MaxPath == 2

\* a property that is not there
NoProperty == [kind |-> "undefined", ret |-> "none", names |-> <<>>]

\* a state of the path without own data.permissions
NoPermissions == [set |-> FALSE, only |-> NoProperty, except |-> NoProperty, redirectTo |-> Absent]

\* data.permissions.only / .except of the states of a path
ScopeOnlys ==
    { NoProperty,
      [kind |-> "string", ret |-> "none", names |-> <<"a">>],
      [kind |-> "array", ret |-> "none", names |-> <<"a", "b">>] }

ScopeExcepts ==
    { NoProperty,
      [kind |-> "array", ret |-> "none", names |-> <<"b">>] }

\* data.permissions.redirectTo of the states of a path
ScopeRedirectTos ==
    { Absent,
      [kind |-> "string", state |-> "login", ret |-> "none", fields |-> NoFields],
      [kind |-> "object", state |-> "none", ret |-> "none",
       fields |-> [k \in {"default", "a"} |->
                      IF k = "a" THEN Str("dashboard") ELSE Fn("function", "undefined", "none")]] }

\* data.permissions of one state, or none
ScopePolicies ==
    [set : {TRUE}, only : ScopeOnlys, except : ScopeExcepts, redirectTo : ScopeRedirectTos]
        \cup {NoPermissions}

\* toStateObject.path, the root's side first
Paths == UNION {[1..n -> ScopePolicies] : n \in 1..MaxPath}

\* new PermPermissionMap(permissionMap)
PermPermissionMap(permissionMap) ==
    [status     |-> normalizeRedirectToProperty(permissionMap.redirectTo).status,
     only       |-> normalizeOnlyAndExceptProperty(permissionMap.only),
     except     |-> normalizeOnlyAndExceptProperty(permissionMap.except),
     redirectTo |-> normalizeRedirectToProperty(permissionMap.redirectTo)]

\* StatePermissionMap.prototype = new PermPermissionMap()
StatePermissionMapPrototype ==
    [status |-> "ok", only |-> <<>>, except |-> <<>>,
     redirectTo |-> [status |-> "ok", defined |-> FALSE, dict |-> NoDict]]

\* angular.extend({}, a, b): the properties of a, then those of b over them
extend(a, b) == [k \in DOMAIN a \cup DOMAIN b |-> IF k \in DOMAIN b THEN b[k] ELSE a[k]]

\* mutant: the lists of the scope are added to the last group instead of
\* being pushed as a group
extendPermissionMapMerged(this, permissionMap) ==
    [status |-> IF permissionMap.status = "ok" THEN this.status ELSE permissionMap.status,
     only   |-> IF Len(permissionMap.only.v) > 0
                THEN IF Len(this.only) > 0
                     THEN [this.only EXCEPT ![Len(this.only)] = @ \o permissionMap.only.v]
                     ELSE <<permissionMap.only.v>>
                ELSE this.only,
     except |-> IF Len(permissionMap.except.v) > 0
                THEN IF Len(this.except) > 0
                     THEN [this.except EXCEPT ![Len(this.except)] = @ \o permissionMap.except.v]
                     ELSE <<permissionMap.except.v>>
                ELSE this.except,
     redirectTo |-> IF permissionMap.redirectTo.defined
                    THEN Redirection(extend(this.redirectTo.dict, permissionMap.redirectTo.dict))
                    ELSE this.redirectTo]

\* mutant: the lists of the scope are pushed without looking at their length
extendPermissionMapNoLengthCheck(this, permissionMap) ==
    [status |-> IF permissionMap.status = "ok" THEN this.status ELSE permissionMap.status,
     only   |-> this.only \o <<permissionMap.only.v>>,
     except |-> this.except \o <<permissionMap.except.v>>,
     redirectTo |-> IF permissionMap.redirectTo.defined
                    THEN Redirection(extend(this.redirectTo.dict, permissionMap.redirectTo.dict))
                    ELSE this.redirectTo]

\* mutant: angular.extend({}, permissionMap.redirectTo, this.redirectTo)
extendPermissionMapEarlierWins(this, permissionMap) ==
    [status |-> IF permissionMap.status = "ok" THEN this.status ELSE permissionMap.status,
     only   |-> IF Len(permissionMap.only.v) > 0
                THEN this.only \o <<permissionMap.only.v>>
                ELSE this.only,
     except |-> IF Len(permissionMap.except.v) > 0
                THEN this.except \o <<permissionMap.except.v>>
                ELSE this.except,
     redirectTo |-> IF permissionMap.redirectTo.defined
                    THEN Redirection(extend(permissionMap.redirectTo.dict, this.redirectTo.dict))
                    ELSE this.redirectTo]

\* this.only.concat([permissionMap.only]) and this.except.concat([...]) when
\* the list has a length, angular.extend of the redirections when defined; a
\* throw of the PermPermissionMap constructor is kept in status
extendPermissionMap(this, permissionMap) ==
    [status |-> IF permissionMap.status = "ok" THEN this.status ELSE permissionMap.status,
     only   |-> IF Len(permissionMap.only.v) > 0
                THEN this.only \o <<permissionMap.only.v>>
                ELSE this.only,
     except |-> IF Len(permissionMap.except.v) > 0
                THEN this.except \o <<permissionMap.except.v>>
                ELSE this.except,
     redirectTo |-> IF permissionMap.redirectTo.defined
                    THEN Redirection(extend(this.redirectTo.dict, permissionMap.redirectTo.dict))
                    ELSE this.redirectTo]

\* Object.prototype.hasOwnProperty.call(state.data, 'permissions')
areSetStatePermissions(state) == state.set

\* the forEach over toStatePath of the StatePermissionMap constructor, after
\* the first n states
RECURSIVE StatePermissionMapUpTo(_, _)
StatePermissionMapUpTo(toStatePath, n) ==
    IF n = 0 THEN StatePermissionMapPrototype
    ELSE LET this == StatePermissionMapUpTo(toStatePath, n - 1)
         IN  IF this.status # "ok" THEN this
             ELSE IF areSetStatePermissions(toStatePath[n])
                  THEN extendPermissionMap(this, PermPermissionMap(toStatePath[n]))
                  ELSE this

\* new PermStatePermissionMap(toState)
StatePermissionMap(toStatePath) == StatePermissionMapUpTo(toStatePath, Len(toStatePath))

----------------------------------------------------------------------------
(* The decorated $state.transitionTo *)

\* a call for the state named `to`, whose path is `path`, before it is made
IdleTo(to, path) ==
    [to |-> to, path |-> path, status |-> "idle", events |-> <<>>, nav |-> <<>>,
     redirectTo |-> StatePermissionMapPrototype.redirectTo]

Idle(path) == IdleTo("toState", path)

\* PermTransitionProperties before any call
NoTransitionProperties == [toState |-> "none"]

\* what the name lookup of the state gives
Lookups == {"found", "unfound", "relative"}

\* the listener that calls preventDefault, if any
Prevented == {"none", "$stateChangeStart", "$stateChangePermissionStart"}

\* the name a rejection carries
NameOf(val) == IF val.t = "name" THEN val.v[1] ELSE "undefined"

\* $state.transitionTo(to, toParams, options), up to the promise it returns:
\* the two throws, the two prevented events, else the map of toState is built
\* and authorizeByPermissionMap starts on it
TransitionTo(lookup, prevented) ==
    LET statePermissionMap == StatePermissionMap(transition.path)
    IN  /\ transition.status = "idle"
        /\ IF lookup # "found"
           THEN /\ transition' = [transition EXCEPT !.status = "Error"]
                /\ UNCHANGED <<map, deferred, chain, allSt, PermTransitionProperties>>
           ELSE /\ PermTransitionProperties' = [toState |-> transition.to]
                /\ IF prevented = "$stateChangeStart"
                   THEN /\ transition' = [transition EXCEPT !.status = "cancelled",
                                                            !.events = <<"$stateChangeStart">>]
                        /\ UNCHANGED <<map, deferred, chain, allSt>>
                   ELSE IF prevented = "$stateChangePermissionStart"
                        THEN /\ transition' =
                                   [transition EXCEPT
                                       !.status = "delegated",
                                       !.events = <<"$stateChangeStart", "$stateChangePermissionStart">>,
                                       !.nav = <<[call |-> "$$transitionTo", to |-> transition.to]>>]
                             /\ UNCHANGED <<map, deferred, chain, allSt>>
                        ELSE IF statePermissionMap.status # "ok"
                             THEN /\ transition' =
                                        [transition EXCEPT
                                            !.status = statePermissionMap.status,
                                            !.events = <<"$stateChangeStart", "$stateChangePermissionStart">>]
                                  /\ UNCHANGED <<map, deferred, chain, allSt>>
                             ELSE /\ transition' =
                                        [transition EXCEPT
                                            !.status = "authorizing",
                                            !.events = <<"$stateChangeStart", "$stateChangePermissionStart">>,
                                            !.redirectTo = statePermissionMap.redirectTo]
                                  /\ map' = [only |-> statePermissionMap.only,
                                             except |-> statePermissionMap.except]
                                  /\ deferred' = [deferred EXCEPT !.st = "pending"]
                                  /\ chain' = [chain EXCEPT
                                                  !.except = resolveStatePermissionMap(statePermissionMap.except)]
                                  /\ allSt' = [allSt EXCEPT !.except = "pending"]
        /\ UNCHANGED <<roleStore, permissionStore, redirectVars, other>>

\* mutant: the transition is delegated without the accepted event
handleAuthorizedStateNoEvent ==
    /\ transition.status = "authorizing"
    /\ deferred.st = "resolved"
    /\ transition' = [transition EXCEPT
                         !.status = "authorized",
                         !.nav = Append(@, [call |-> "$$transitionTo",
                                            to |-> PermTransitionProperties.toState])]
    /\ UNCHANGED <<authVars, redirectVars, overlapVars>>

\* handleAuthorizedState: the accepted event, then delegateTransitionTo, which
\* goes to PermTransitionProperties.toState
handleAuthorizedState ==
    /\ transition.status = "authorizing"
    /\ deferred.st = "resolved"
    /\ transition' = [transition EXCEPT
                         !.status = "authorized",
                         !.events = Append(@, "$stateChangePermissionAccepted"),
                         !.nav = Append(@, [call |-> "$$transitionTo",
                                            to |-> PermTransitionProperties.toState])]
    /\ UNCHANGED <<authVars, redirectVars, overlapVars>>

\* the function handleUnauthorizedState returned: the denied event, then
\* statePermissionMap.resolveRedirectState(rejectedPermission)
handleUnauthorizedState ==
    /\ transition.status = "authorizing"
    /\ deferred.st = "rejected"
    /\ transition' = [transition EXCEPT
                         !.status = "unauthorized",
                         !.events = Append(@, "$stateChangePermissionDenied")]
    /\ redirect' =
          [name   |-> NameOf(deferred.val),
           st     |-> PermissionMap_resolveRedirectState(transition.redirectTo, NameOf(deferred.val)).st,
           target |-> PermissionMap_resolveRedirectState(transition.redirectTo, NameOf(deferred.val)).target,
           calls  |-> redirect.calls + 1]
    /\ UNCHANGED <<authVars, policy, pmap, overlapVars>>

\* mutant: the transition goes on to the requested state when no redirection is found
redirectThenElseDelegate ==
    /\ transition.status = "unauthorized"
    /\ transition' = [transition EXCEPT
                         !.status = "redirected",
                         !.nav = Append(@, IF redirect.st = "resolved"
                                           THEN [call |-> "go", to |-> redirect.target.state]
                                           ELSE [call |-> "$$transitionTo",
                                                 to |-> PermTransitionProperties.toState])]
    /\ UNCHANGED <<authVars, redirectVars, overlapVars>>

\* .then(function (redirect) { return $state.go(redirect.state, ...); })
redirectThen ==
    /\ transition.status = "unauthorized"
    /\ redirect.st = "resolved"
    /\ transition' = [transition EXCEPT
                         !.status = "redirected",
                         !.nav = Append(@, [call |-> "go", to |-> redirect.target.state])]
    /\ UNCHANGED <<authVars, redirectVars, overlapVars>>

InitTransition ==
    /\ transition \in {Idle(path) : path \in Paths}
    /\ map = [only |-> StatePermissionMapPrototype.only, except |-> StatePermissionMapPrototype.except]
    /\ roleStore \in [Names -> {"absent", "accept"}]
    /\ permissionStore = [n \in Names |-> "reject"]
    /\ deferred = [st |-> "unset", val |-> Undefined, calls |-> 0]
    /\ allSt = [except |-> "none", only |-> "none"]
    /\ chain = [except |-> NoChain, only |-> NoChain]
    /\ policy = NoPolicy
    /\ pmap = NoPolicy
    /\ redirect = NotCalled
    /\ PermTransitionProperties = NoTransitionProperties
    /\ other = NoPolicy

NextTransition ==
    \/ \E lookup \in Lookups, prevented \in Prevented : TransitionTo(lookup, prevented)
    \/ \E ph \in Phases : StartGroup(ph)
    \/ \E ph \in Phases, i \in 1..MaxPath, k \in 1..Cardinality(Names) : SettleCheck(ph, i, k)
    \/ ExceptThen
    \/ ExceptCatch
    \/ OnlyThen
    \/ OnlyCatch
    \/ handleAuthorizedState
    \/ handleUnauthorizedState
    \/ redirectThen

SpecTransition == InitTransition /\ [][NextTransition]_vars

----------------------------------------------------------------------------
(* Two authorizeByPermissionMap calls on one map *)

\* most groups in map.only and map.except together when two calls share the map
MaxPairGroups == 2

\* the callbacks of the other call are the next to run: what the running
\* call's closures hold (deferred, the $q.all promise, the chain) is put
\* aside and the other call's is taken up; the map is the same object
SwitchAuthorize ==
    /\ other' = [other EXCEPT !.id = 3 - other.id,
                              !.deferred = deferred, !.allSt = allSt, !.chain = chain]
    /\ deferred' = other.deferred
    /\ allSt' = other.allSt
    /\ chain' = other.chain
    /\ UNCHANGED <<map, roleStore, permissionStore, redirectVars, transition, PermTransitionProperties>>

InitPair ==
    /\ map \in {[only |-> o, except |-> e] :
                    o \in GroupSeqs(MaxPairGroups), e \in GroupSeqs(MaxPairGroups)}
    /\ Len(map.only) + Len(map.except) <= MaxPairGroups
    /\ roleStore \in [Names -> {"absent", "accept"}]
    /\ permissionStore = [n \in Names |-> "reject"]
    /\ deferred = [st |-> "unset", val |-> Undefined, calls |-> 0]
    /\ allSt = [except |-> "none", only |-> "none"]
    /\ chain = [except |-> NoChain, only |-> NoChain]
    /\ other = [id |-> 2, ruleSet |-> map,
                deferred |-> deferred, allSt |-> allSt, chain |-> chain]
    /\ policy = NoPolicy
    /\ pmap = NoPolicy
    /\ redirect = NoPolicy
    /\ transition = NoPolicy
    /\ PermTransitionProperties = NoPolicy

NextPair ==
    \/ Authorize
    \/ \E ph \in Phases : StartGroup(ph)
    \/ \E ph \in Phases, i \in 1..MaxPairGroups, k \in 1..Cardinality(Names) : SettleCheck(ph, i, k)
    \/ ExceptThen
    \/ ExceptCatch
    \/ OnlyThen
    \/ OnlyCatch
    \/ SwitchAuthorize

SpecPair == InitPair /\ [][NextPair]_vars

----------------------------------------------------------------------------
(* Two overlapping $state.transitionTo calls *)

\* data.permissions of the two states asked for
OverlapPolicies ==
    {p \in ScopePolicies :
        p.set /\ p.only.kind = "string" /\ p.redirectTo.kind \in {"undefined", "string"}}

\* the callbacks of the other call are the next to run: each call has its own
\* statePermissionMap, deferred and chain; PermTransitionProperties is the
\* one holder both calls write and read
SwitchTransition ==
    /\ other' = [id |-> 3 - other.id, transition |-> transition, map |-> map, deferred |-> deferred,
                 allSt |-> allSt, chain |-> chain, redirect |-> redirect]
    /\ transition' = other.transition
    /\ map' = other.map
    /\ deferred' = other.deferred
    /\ allSt' = other.allSt
    /\ chain' = other.chain
    /\ redirect' = other.redirect
    /\ UNCHANGED <<roleStore, permissionStore, policy, pmap, PermTransitionProperties>>

InitOverlap ==
    /\ transition \in {IdleTo("A", <<p>>) : p \in OverlapPolicies}
    /\ map = [only |-> StatePermissionMapPrototype.only, except |-> StatePermissionMapPrototype.except]
    /\ roleStore \in [Names -> {"absent", "accept"}]
    /\ permissionStore = [n \in Names |-> "reject"]
    /\ deferred = [st |-> "unset", val |-> Undefined, calls |-> 0]
    /\ allSt = [except |-> "none", only |-> "none"]
    /\ chain = [except |-> NoChain, only |-> NoChain]
    /\ redirect = NotCalled
    /\ other \in {[id |-> 2, transition |-> IdleTo("B", <<p>>), map |-> map, deferred |-> deferred,
                   allSt |-> allSt, chain |-> chain, redirect |-> redirect] : p \in OverlapPolicies}
    /\ policy = NoPolicy
    /\ pmap = NoPolicy
    /\ PermTransitionProperties = NoTransitionProperties

NextOverlap ==
    \/ \E lookup \in Lookups, prevented \in Prevented : TransitionTo(lookup, prevented)
    \/ \E ph \in Phases : StartGroup(ph)
    \/ \E ph \in Phases, k \in 1..Cardinality(Names) : SettleCheck(ph, 1, k)
    \/ ExceptThen
    \/ ExceptCatch
    \/ OnlyThen
    \/ OnlyCatch
    \/ handleAuthorizedState
    \/ handleUnauthorizedState
    \/ redirectThen
    \/ SwitchTransition

SpecOverlap == InitOverlap /\ [][NextOverlap]_vars

----------------------------------------------------------------------------
(* Vocabulary of the properties *)

\* the privilege validates: its role does, or it has no role and its permission does
Validates(n) ==
    \/ roleStore[n] = "accept"
    \/ roleStore[n] = "absent" /\ permissionStore[n] = "accept"

NamesOf(groups) == UNION {{groups[i][k] : k \in 1..Len(groups[i])} : i \in 1..Len(groups)}

GroupOk(g) == \E k \in 1..Len(g) : Validates(g[k])

NoExceptValidates == \A i \in 1..Len(map.except) : ~GroupOk(map.except[i])

Accepted == deferred.st = "resolved"

Rejected == deferred.st = "rejected"

\* nothing is left to run: every callback has run and every validation has settled
Quiescent == deferred.st # "unset" /\ ~ENABLED Next

\* every group of the sequence has a name that validates
SeqOk(groups) == Len(groups) > 0 /\ \A i \in 1..Len(groups) : GroupOk(groups[i])

\* the name whose validation settled last in group i of the phase
LastSettled(ph, i) == map[ph][i][chain[ph].order[i][Len(chain[ph].order[i])]]

\* the names of group i of the phase that validate, in the order they settled
SettledOk(ph, i) ==
    SelectSeq([j \in 1..Len(chain[ph].order[i]) |-> map[ph][i][chain[ph].order[i][j]]], Validates)

----------------------------------------------------------------------------
(* C1..C6: the deny-then-allow protocol *)

\* C1 (as claimed): if some name of the except groups validates, authorize
\* never accepts, and a rejection carries a validating except name
C1_DenyTakesPrecedence ==
    (\E n \in NamesOf(map.except) : Validates(n)) =>
        /\ ~Accepted
        /\ Rejected => \E n \in NamesOf(map.except) : Validates(n) /\ deferred.val = NameVal(n)

\* C2: with only empty and no except name validating, authorize never rejects
\* and has accepted, with no payload, once the except phase has failed
C2_EmptyOnlyAccepts ==
    (Len(map.only) = 0 /\ NoExceptValidates) =>
        /\ ~Rejected
        /\ allSt.except \in {"resolved", "rejected"} => Accepted /\ deferred.val = Undefined
        /\ Quiescent => Accepted

C2_Witness ==
    /\ Len(map.only) = 0
    /\ Len(map.except) = 2
    /\ NoExceptValidates
    /\ \E n \in NamesOf(map.except) : roleStore[n] = "absent" /\ permissionStore[n] = "absent"
    /\ \E n \in NamesOf(map.except) : roleStore[n] = "reject"
    /\ Accepted

\* C3 (as claimed): with no deny match, an only sequence in which at least one
\* group succeeds is accepted
C3_OneGroupSuffices ==
    (NoExceptValidates /\ \E i \in 1..Len(map.only) : GroupOk(map.only[i])) => ~Rejected

\* C3 (amended): a sequence evaluation succeeds iff every group succeeds and
\* fails as soon as one group has failed; authorize accepts iff the except
\* evaluation fails and only is empty or its evaluation succeeds
C3_EveryGroupMustSucceed ==
    /\ \A ph \in Phases :
          /\ allSt[ph] = "resolved" => SeqOk(map[ph])
          /\ allSt[ph] = "rejected" => ~SeqOk(map[ph])
          /\ (allSt[ph] = "pending" /\ FirstRejected(chain[ph].promises) # 0) => ~SeqOk(map[ph])
    /\ Accepted => ~SeqOk(map.except) /\ (Len(map.only) = 0 \/ SeqOk(map.only))
    /\ Rejected => SeqOk(map.except) \/ (Len(map.only) > 0 /\ ~SeqOk(map.only))
    /\ Quiescent => Accepted \/ Rejected

C3_Witness ==
    /\ NoExceptValidates
    /\ Len(map.only) = 2
    /\ ~GroupOk(map.only[1])
    /\ GroupOk(map.only[2])
    /\ Rejected
    /\ chain.only.promises[2].st = "resolved"

\* C4 (as claimed): when no except name and no only name validates, the
\* rejection carries the name that failed last in the last only group
C4_LastGroupReported ==
    (NoExceptValidates /\ Len(map.only) > 0 /\ (\A n \in NamesOf(map.only) : ~Validates(n)) /\ Quiescent) =>
        /\ Rejected
        /\ deferred.val = NameVal(LastSettled("only", Len(map.only)))

\* C4 (amended): when no except name and no only name validates, authorize
\* never accepts and rejects with the name whose failure settled last in the
\* first only group
C4_FirstGroupReported ==
    (NoExceptValidates /\ Len(map.only) > 0 /\ \A n \in NamesOf(map.only) : ~Validates(n)) =>
        /\ ~Accepted
        /\ Rejected =>
              /\ Len(chain.only.order[1]) = Len(map.only[1])
              /\ deferred.val = NameVal(LastSettled("only", 1))
        /\ Quiescent => Rejected

C4_Witness ==
    /\ Rejected
    /\ Quiescent
    /\ NoExceptValidates
    /\ Len(map.except) > 0
    /\ Len(map.only) = 2
    /\ \A n \in NamesOf(map.only) : ~Validates(n)
    /\ Len(map.only[1]) = 2
    /\ NamesOf(<<map.only[2]>>) # {LastSettled("only", 1)}

\* C5: deferred.resolve/reject is called at most once, a settled outcome never
\* changes, and a rejection carries one name of the sequence that decided it
C5_OneOutcomeOneName ==
    /\ [](/\ deferred.calls <= 1
          /\ deferred.st \in {"unset", "pending", "resolved", "rejected"}
          /\ Rejected =>
                /\ deferred.val.t = "name"
                /\ allSt.except = "resolved" => deferred.val.v[1] \in NamesOf(map.except)
                /\ allSt.except # "resolved" => deferred.val.v[1] \in NamesOf(map.only)
          /\ Accepted => deferred.val.t \in {"undefined", "array"}
          /\ Quiescent => deferred.calls = 1)
    /\ [][(Accepted \/ Rejected) => deferred' = deferred]_vars

C5_Witness ==
    /\ Rejected
    /\ allSt.except = "resolved"
    /\ Len(map.except) = 2
    /\ Len(map.only) > 0
    /\ Quiescent

\* C6: the validations of all names of a group are started together; the
\* promise of the group is resolved as soon as one of its names has
\* validated, with the payload of the first validation to succeed, whatever
\* has been rejected before or is rejected after; it is rejected only when
\* every name has failed
C6_GroupIsAnyOf ==
    \A ph \in Phases : \A i \in 1..chain[ph].started :
        /\ Len(chain[ph].checks[i]) = Len(map[ph][i])
        /\ Len(SettledOk(ph, i)) > 0 =>
              /\ chain[ph].promises[i].st = "resolved"
              /\ chain[ph].promises[i].val = NameVal(SettledOk(ph, i)[1])
        /\ chain[ph].promises[i].st = "resolved" => Len(SettledOk(ph, i)) > 0
        /\ chain[ph].promises[i].st = "rejected" <=>
              (~GroupOk(map[ph][i]) /\ Len(chain[ph].order[i]) = Len(map[ph][i]))

\* a group resolved by its second name, settled first, before its first name was rejected
C6_Witness ==
    \E ph \in Phases : \E i \in 1..chain[ph].started :
        /\ chain[ph].order[i] = <<2, 1>>
        /\ ~Validates(map[ph][i][1])
        /\ chain[ph].promises[i] = [st |-> "resolved", val |-> NameVal(map[ph][i][2])]

----------------------------------------------------------------------------
(* C7..C10: redirect normalization and resolution *)

\* what a redirection value found under property `key` stands for: a string s
\* for {state: s}, an object for itself, a callable for what its result maps to
ExpectedOutcome(e, key) ==
    IF e.kind = "string" THEN [st |-> "resolved", target |-> [state |-> e.state, id |-> <<"new">>]]
    ELSE IF e.kind = "object"
         THEN [st |-> "resolved", target |-> [state |-> e.state, id |-> <<"redirectTo", key>>]]
         ELSE IF e.ret = "string"
              THEN [st |-> "resolved", target |-> [state |-> e.state, id |-> <<"new">>]]
              ELSE IF e.ret = "object"
                   THEN [st |-> "resolved", target |-> [state |-> e.state, id |-> <<"returned">>]]
                   ELSE [st |-> "rejected", target |-> NoTarget]

\* the redirectTo object has a usable redirection under property k
HasEntry(k) ==
    /\ k \in DOMAIN policy.redirectTo.fields
    /\ policy.redirectTo.fields[k].kind # "number"

\* the policy's redirectTo is an object {default: X, ...} without a state property
IsMultipleRule ==
    /\ policy.redirectTo.kind = "object"
    /\ "state" \notin DOMAIN policy.redirectTo.fields
    /\ "default" \in DOMAIN policy.redirectTo.fields

\* C7: resolveRedirectState(p) on a map built from {default: X, p: Y, ...}
\* yields what Y stands for when the object has a redirection under p, and
\* what X stands for otherwise
C7_NamedEntryElseDefault ==
    (IsMultipleRule /\ redirect.calls = 1) =>
        LET key == IF HasEntry(redirect.name) THEN redirect.name ELSE "default"
        IN  IF HasEntry(key)
            THEN /\ redirect.st = ExpectedOutcome(policy.redirectTo.fields[key], key).st
                 /\ redirect.target = ExpectedOutcome(policy.redirectTo.fields[key], key).target
            ELSE redirect.st = "rejected"

C7_Witness ==
    /\ IsMultipleRule
    /\ DOMAIN policy.redirectTo.fields = {"default", "a"}
    /\ policy.redirectTo.fields["default"] = Str("login")
    /\ policy.redirectTo.fields["a"] = Str("dashboard")
    /\ redirect.calls = 1
    /\ redirect.name = "a"
    /\ redirect.st = "resolved"
    /\ redirect.target.state = "dashboard"

\* C8 (as claimed): a map built from a policy without redirectTo has an empty
\* redirect dictionary and resolveRedirectState ends rejected on it
C8_NoRedirectToRejects ==
    (policy.redirectTo.kind = "undefined" /\ redirect.calls = 1) =>
        /\ pmap.redirectTo.defined
        /\ DOMAIN pmap.redirectTo.dict = {}
        /\ redirect.st = "rejected"

\* C9: constructing from a redirectTo object throws exactly when the object
\* defines neither state nor default, and then there is no map to use
C9_ObjectNeedsStateOrDefault ==
    /\ (policy.redirectTo.kind = "object" /\ pmap.status # "unbuilt") =>
          /\ pmap.status = "ReferenceError" <=>
                DOMAIN policy.redirectTo.fields \cap {"state", "default"} = {}
          /\ pmap.status = "built" <=>
                DOMAIN policy.redirectTo.fields \cap {"state", "default"} # {}
    /\ pmap.status = "ReferenceError" =>
          /\ policy.redirectTo.kind = "object"
          /\ pmap = [Unbuilt EXCEPT !.status = "ReferenceError"]
          /\ redirect = NotCalled
          /\ ~ENABLED NextRedirect

C9_Witness ==
    /\ policy.redirectTo.kind = "object"
    /\ DOMAIN policy.redirectTo.fields = {"a"}
    /\ policy.redirectTo.fields["a"] = Str("dashboard")
    /\ pmap.status = "ReferenceError"

\* the policy's redirectTo is a string, a callable or an object with a state property
IsSingleRule ==
    \/ policy.redirectTo.kind \in {"string", "function", "injectable"}
    \/ policy.redirectTo.kind = "object" /\ "state" \in DOMAIN policy.redirectTo.fields

\* C10: a string, a callable or an object with a state property normalizes to
\* a dictionary whose only key is "default"; the string S resolves to a fresh
\* {state: S} and the object to itself, for every rejected name
C10_SingleRuleIsDefault ==
    (IsSingleRule /\ pmap.status # "unbuilt") =>
        /\ pmap.status = "built"
        /\ pmap.redirectTo.defined
        /\ DOMAIN pmap.redirectTo.dict = {"default"}
        /\ (policy.redirectTo.kind = "string" /\ redirect.calls = 1) =>
              /\ redirect.st = "resolved"
              /\ redirect.target = [state |-> policy.redirectTo.state, id |-> <<"new">>]
        /\ (policy.redirectTo.kind = "object" /\ redirect.calls = 1) =>
              /\ redirect.st = "resolved"
              /\ redirect.target = [state |-> policy.redirectTo.fields["state"].state,
                                    id |-> <<"redirectTo">>]

C10_Witness ==
    /\ policy.redirectTo.kind = "object"
    /\ DOMAIN policy.redirectTo.fields = {"state", "default", "a"}
    /\ policy.redirectTo.fields["state"] = Str("login")
    /\ policy.redirectTo.fields["a"] = Str("dashboard")
    /\ redirect.calls = 1
    /\ redirect.name = "a"
    /\ redirect.target = [state |-> "login", id |-> <<"redirectTo">>]

----------------------------------------------------------------------------
(* C11..C13: resolver results and normalization of only / except *)

IsCallable(e) == e.kind \in {"function", "injectable"}

\* the property of the redirectTo object whose redirection is looked up for the rejected name
FoundKey == IF HasEntry(redirect.name) THEN redirect.name ELSE "default"

\* what the callable e returned is mapped by type
MappedByType(e) ==
    /\ e.ret = "string" =>
          /\ redirect.st = "resolved"
          /\ redirect.target = [state |-> e.state, id |-> <<"new">>]
    /\ e.ret = "object" =>
          /\ redirect.st = "resolved"
          /\ redirect.target = [state |-> e.state, id |-> <<"returned">>]
    /\ e.ret \notin {"string", "object"} =>
          /\ redirect.st = "rejected"
          /\ redirect.target = NoTarget

\* C11: when the redirection found for the rejected name is a callable, a
\* string S it returns resolves to a fresh {state: S}, an object it returns
\* resolves to that object, and any other result (undefined, a number) rejects
C11_ResultMappedByType ==
    redirect.calls = 1 =>
        /\ IsCallable(policy.redirectTo) => MappedByType(policy.redirectTo)
        /\ (IsMultipleRule /\ HasEntry(FoundKey) /\ IsCallable(policy.redirectTo.fields[FoundKey])) =>
              MappedByType(policy.redirectTo.fields[FoundKey])

C11_Witness ==
    /\ redirect.calls = 1
    /\ IsMultipleRule
    /\ HasEntry("a")
    /\ policy.redirectTo.fields["a"] = Fn("function", "number", "none")
    /\ policy.redirectTo.fields["default"] = Str("login")
    /\ redirect.name = "a"
    /\ redirect.st = "rejected"

\* the value a function property returned, written as a literal property
ReturnedLiteral(property) == [kind |-> property.ret, ret |-> "none", names |-> property.names]

\* C12 (as claimed): a callable only/except normalizes to what the literal of
\* its return value normalizes to: a returned name N gives [N], a returned
\* array gives that array
C12_CallableRenormalized ==
    pmap.status = "built" =>
        /\ policy.only.kind = "function" =>
              pmap.only = normalizeOnlyAndExceptProperty(ReturnedLiteral(policy.only))
        /\ policy.except.kind = "function" =>
              pmap.except = normalizeOnlyAndExceptProperty(ReturnedLiteral(policy.except))

\* a normalized value, read as a raw property again
AsProperty(val) ==
    IF val.t = "array" THEN [kind |-> "array", ret |-> "none", names |-> val.v]
    ELSE IF val.t = "name" THEN [kind |-> "string", ret |-> "none", names |-> val.v]
         ELSE [kind |-> "undefined", ret |-> "none", names |-> <<>>]

\* C13: for a raw only/except that is a string, an array of names or absent,
\* the normalized value is an array and normalizing it again gives the same value
C13_NormalizeIdempotent ==
    pmap.status = "built" =>
        /\ policy.only.kind \in {"string", "array", "undefined"} =>
              /\ pmap.only.t = "array"
              /\ normalizeOnlyAndExceptProperty(AsProperty(pmap.only)) = pmap.only
        /\ policy.except.kind \in {"string", "array", "undefined"} =>
              /\ pmap.except.t = "array"
              /\ normalizeOnlyAndExceptProperty(AsProperty(pmap.except)) = pmap.except

C13_Witness ==
    /\ pmap.status = "built"
    /\ policy.only.kind = "string"
    /\ pmap.only = ArrayVal(<<"a">>)
    /\ policy.except.kind = "undefined"
    /\ pmap.except = ArrayVal(<<>>)

----------------------------------------------------------------------------
(* C14..C16: the map of a state path and the transition that uses it *)

\* the map of toState has been built
MapBuilt == transition.status \in {"authorizing", "authorized", "unauthorized", "redirected"}

NonEmpty(g) == Len(g) > 0

\* the names each state of the path lists under only / except
ScopeLists(field) == [i \in 1..Len(transition.path) |-> transition.path[i][field].names]

\* C14: the only sequence of the map is the non-empty only lists of the
\* states of the path, one group per state, in path order; likewise for except
C14_OneGroupPerScope ==
    MapBuilt =>
        /\ map.only = SelectSeq(ScopeLists("only"), NonEmpty)
        /\ map.except = SelectSeq(ScopeLists("except"), NonEmpty)

C14_Witness ==
    /\ MapBuilt
    /\ Len(transition.path) = 2
    /\ transition.path[1].only.kind = "string"
    /\ transition.path[2].only.kind = "array"
    /\ map.only = <<<<"a">>, <<"a", "b">>>>

\* the redirections state i of the path defines
ScopeRedirection(i) ==
    IF transition.path[i].set
    THEN normalizeRedirectToProperty(transition.path[i].redirectTo)
    ELSE StatePermissionMapPrototype.redirectTo

\* the last state of the path that defines a redirection under key k
LastDefining(k) ==
    CHOOSE i \in 1..Len(transition.path) :
        /\ k \in DOMAIN ScopeRedirection(i).dict
        /\ \A j \in (i + 1)..Len(transition.path) : k \notin DOMAIN ScopeRedirection(j).dict

\* C15: the redirect dictionary of the map has the keys of all the states of
\* the path, each key mapped to the resolver of the last state defining it;
\* the states without redirectTo contribute nothing
C15_LaterScopeOverridesPerKey ==
    MapBuilt =>
        /\ transition.redirectTo.defined <=>
              \E i \in 1..Len(transition.path) : ScopeRedirection(i).defined
        /\ DOMAIN transition.redirectTo.dict =
              UNION {DOMAIN ScopeRedirection(i).dict : i \in 1..Len(transition.path)}
        /\ \A k \in DOMAIN transition.redirectTo.dict :
              transition.redirectTo.dict[k] = ScopeRedirection(LastDefining(k)).dict[k]

C15_Witness ==
    /\ MapBuilt
    /\ Len(transition.path) = 2
    /\ transition.path[1].redirectTo.kind = "object"
    /\ transition.path[2].redirectTo.kind = "string"
    /\ DOMAIN transition.redirectTo.dict = {"default", "a"}
    /\ transition.redirectTo.dict["default"] = Resolver("object", "login", <<"new">>, "none")
    /\ transition.redirectTo.dict["a"] = Resolver("object", "dashboard", <<"new">>, "none")

\* no callback of the transition is left to run
QuiescentTransition == ~ENABLED NextTransition

\* C16: a rejected authorization is followed by the denied event and one call
\* of resolveRedirectState with the rejected name; the only navigation of the
\* call is then a $state.go to the target resolveRedirectState resolved with,
\* and when it did not resolve there is no navigation at all
C16_RedirectOnlyIfResolved ==
    /\ (Rejected /\ transition.status = "authorizing") =>
          /\ ENABLED handleUnauthorizedState
          /\ transition.nav = <<>>
    /\ transition.status \in {"unauthorized", "redirected"} =>
          /\ Rejected
          /\ transition.events[Len(transition.events)] = "$stateChangePermissionDenied"
          /\ redirect.calls = 1
          /\ redirect.name = NameOf(deferred.val)
    /\ (Rejected /\ transition.nav # <<>>) =>
          /\ redirect.st = "resolved"
          /\ transition.nav = <<[call |-> "go", to |-> redirect.target.state]>>
    /\ (redirect.calls = 1 /\ redirect.st # "resolved") =>
          /\ transition.nav = <<>>
          /\ transition.status = "unauthorized"
    /\ (Rejected /\ QuiescentTransition) =>
          transition.status = IF redirect.st = "resolved" THEN "redirected" ELSE "unauthorized"

C16_Witness ==
    /\ transition.status = "unauthorized"
    /\ transition.redirectTo.defined
    /\ redirect.st = "rejected"
    /\ redirect.name = "b"
    /\ transition.nav = <<>>
    /\ QuiescentTransition

----------------------------------------------------------------------------
(* C17..C20: order of evaluation inside authorizeByPermissionMap *)

\* the validations of group i of the phase have been started
Started(ph, i) == i <= chain[ph].started

\* C17: when the validations of a group have been started, every group before
\* it in the sequence has settled, and the groups are started in sequence order
C17_GroupsOneAfterAnother ==
    \A ph \in Phases : \A i \in 1..Len(chain[ph].checks) :
        /\ Started(ph, i) =>
              /\ Len(chain[ph].checks[i]) = Len(map[ph][i])
              /\ \A j \in 1..(i - 1) : chain[ph].promises[j].st # "pending"
        /\ ~Started(ph, i) =>
              /\ chain[ph].checks[i] = <<>>
              /\ chain[ph].order[i] = <<>>
              /\ chain[ph].promises[i].st = "pending"

C17_Witness ==
    \E ph \in Phases :
        /\ Len(map[ph]) = 3
        /\ chain[ph].started = 3
        /\ chain[ph].order[1] = <<2, 1>>
        /\ chain[ph].promises[1].st = "resolved"
        /\ chain[ph].promises[2].st = "rejected"
        /\ chain[ph].promises[3].st = "pending"

\* C18 (as claimed): after a group of a sequence has succeeded, no validation
\* of a later group of the sequence is started
C18_ShortCircuit ==
    \A ph \in Phases : \A i \in 1..Len(chain[ph].promises) :
        chain[ph].promises[i].st = "resolved" => ~Started(ph, i + 1)

\* C18 (amended): a sequence is evaluated to its end: when a group has
\* settled, succeeded or failed, the validations of the next group can start,
\* and while a started group is pending one of its validations is still to
\* settle and can settle
C18_EveryGroupEvaluated ==
    \A ph \in Phases :
        allSt[ph] # "none" =>
            LET n == chain[ph].started
                settled == IF n = 0 THEN TRUE ELSE chain[ph].promises[n].st # "pending"
            IN  /\ (n < Len(map[ph]) /\ settled) => ENABLED StartGroup(ph)
                /\ ~settled =>
                      \E k \in 1..Len(map[ph][n]) :
                          /\ chain[ph].checks[n][k].st = "pending"
                          /\ ENABLED SettleCheck(ph, n, k)

C18_Witness ==
    \E ph \in Phases :
        /\ Quiescent
        /\ Len(map[ph]) = 2
        /\ Started(ph, 2)
        /\ chain[ph].promises[1].st = "resolved"
        /\ chain[ph].promises[2].st = "rejected"
        /\ Len(chain[ph].order[2]) = Len(map[ph][2])

\* C19 (as claimed): no validation of an only name is started and authorize
\* is not accepted until every except group has been evaluated and has
\* failed, and an accepted authorize has no validating except name
C19_AllowAfterDenyFailed ==
    /\ (chain.only.started > 0 \/ Accepted) =>
          \A i \in 1..Len(map.except) : chain.except.promises[i].st = "rejected"
    /\ Accepted => NoExceptValidates

\* C20: a group is rejected only when all its names have failed, exactly once,
\* with the reason of the failure that settled last, whatever its place in
\* the group; until then failures leave it pending
C20_LastFailureIsReason ==
    \A ph \in Phases : \A i \in 1..chain[ph].started :
        /\ chain[ph].promises[i].st = "rejected" =>
              /\ Len(chain[ph].order[i]) = Len(map[ph][i])
              /\ chain[ph].anys[i].counter = 0
              /\ chain[ph].promises[i].val = NameVal(LastSettled(ph, i))
        /\ (~GroupOk(map[ph][i]) /\ Len(chain[ph].order[i]) < Len(map[ph][i])) =>
              /\ chain[ph].promises[i].st = "pending"
              /\ chain[ph].anys[i].counter = Len(map[ph][i]) - Len(chain[ph].order[i])
        /\ (~GroupOk(map[ph][i]) /\ Len(chain[ph].order[i]) = Len(map[ph][i])) =>
              chain[ph].promises[i].st = "rejected"

\* a group of two failing names whose second name failed first is rejected
\* with the first name
C20_Witness ==
    \E ph \in Phases : \E i \in 1..chain[ph].started :
        /\ map[ph][i] = <<"a", "b">>
        /\ chain[ph].order[i] = <<2, 1>>
        /\ chain[ph].promises[i] = [st |-> "rejected", val |-> NameVal("a")]

----------------------------------------------------------------------------
(* C21..C22: which store validates a name *)

Settles(answer) == IF answer = "accept" THEN "resolved" ELSE "rejected"

\* C21: the validation of a name that has a role is the role's, whatever the
\* permission store holds for the name, and its outcome is the role's; the
\* validation of a name that has a permission and no role is the permission's
C21_RoleStoreFirst ==
    \A ph \in Phases : \A i \in 1..chain[ph].started : \A k \in 1..Len(chain[ph].checks[i]) :
        LET n == map[ph][i][k]
            check == chain[ph].checks[i][k]
        IN  /\ roleStore[n] # "absent" =>
                  /\ check.via = "role"
                  /\ check.will = Settles(roleStore[n])
                  /\ check.st \in {"pending", Settles(roleStore[n])}
            /\ (roleStore[n] = "absent" /\ permissionStore[n] # "absent") =>
                  /\ check.via = "permission"
                  /\ check.will = Settles(permissionStore[n])
                  /\ check.st \in {"pending", Settles(permissionStore[n])}

\* a name whose role rejects and whose permission accepts has failed
C21_Witness ==
    \E ph \in Phases : \E i \in 1..chain[ph].started : \E k \in 1..Len(chain[ph].checks[i]) :
        /\ roleStore[map[ph][i][k]] = "reject"
        /\ permissionStore[map[ph][i][k]] = "accept"
        /\ chain[ph].checks[i][k].via = "role"
        /\ chain[ph].checks[i][k].st = "rejected"
        /\ chain[ph].promises[i].st = "rejected"

Unregistered(n) == roleStore[n] = "absent" /\ permissionStore[n] = "absent"

\* C22: the check of an unregistered name is a rejection carrying the name; a
\* denial never carries an unregistered name, a group of unregistered names
\* is never resolved, and authorize has settled when nothing is left to run
C22_UnregisteredFails ==
    /\ \A ph \in Phases : \A i \in 1..chain[ph].started :
          /\ \A k \in 1..Len(chain[ph].checks[i]) :
                Unregistered(map[ph][i][k]) =>
                    /\ chain[ph].checks[i][k].will = "rejected"
                    /\ chain[ph].checks[i][k].val = NameVal(map[ph][i][k])
                    /\ chain[ph].checks[i][k].st \in {"pending", "rejected"}
          /\ (\A k \in 1..Len(map[ph][i]) : Unregistered(map[ph][i][k])) =>
                chain[ph].promises[i].st # "resolved"
    /\ (Rejected /\ allSt.except = "resolved") => ~Unregistered(NameOf(deferred.val))
    /\ ((\E n \in NamesOf(map.except) \cup NamesOf(map.only) : Unregistered(n)) /\ Quiescent) =>
          /\ deferred.st \in {"resolved", "rejected"}
          /\ Rejected => deferred.val.t = "name"

\* an except group and an only group of unregistered names: rejected with the only name
C22_Witness ==
    /\ Rejected
    /\ map.except = <<<<"a">>>>
    /\ map.only = <<<<"b">>>>
    /\ Unregistered("a")
    /\ Unregistered("b")
    /\ deferred.val = NameVal("b")

----------------------------------------------------------------------------
(* C23: no empty group *)

\* the states of the path whose own permissions list a name under the field
ScopesListing(field) ==
    {i \in 1..Len(transition.path) :
        transition.path[i].set /\ Len(transition.path[i][field].names) > 0}

\* C23: no group of the only and except sequences of a state's map is empty,
\* and each sequence has one group per state of the path that lists a name
C23_NoEmptyGroup ==
    MapBuilt =>
        /\ \A i \in 1..Len(map.only) : Len(map.only[i]) > 0
        /\ \A i \in 1..Len(map.except) : Len(map.except[i]) > 0
        /\ Len(map.only) = Cardinality(ScopesListing("only"))
        /\ Len(map.except) = Cardinality(ScopesListing("except"))

\* a state with an except list only, then a state with an only list only
C23_Witness ==
    /\ MapBuilt
    /\ Len(transition.path) = 2
    /\ transition.path[1].set
    /\ transition.path[1].only.kind = "undefined"
    /\ transition.path[1].except.kind = "array"
    /\ transition.path[2].only.kind = "array"
    /\ transition.path[2].except.kind = "undefined"
    /\ Len(map.only) = 1
    /\ Len(map.except) = 1

----------------------------------------------------------------------------
(* C26: when a single call delegates the transition *)

\* the entries of the call's navigation log that are delegated transitions
Delegations ==
    {j \in 1..Len(transition.nav) : transition.nav[j].call = "$$transitionTo"}

\* how often the call broadcast the event
Broadcasts(event) ==
    Cardinality({j \in 1..Len(transition.events) : transition.events[j] = event})

\* C26: the call delegates the transition at most once, to the state asked
\* for, and only after authorize accepted and the accepted event was
\* broadcast, or when $stateChangePermissionStart was prevented and no
\* authorization was started; a call cancelled by $stateChangeStart and a call
\* whose authorization was rejected delegate nothing; the accepted and denied
\* events are broadcast at most once between them
C26_DelegatedOnlyWhenAllowed ==
    /\ Delegations # {} =>
          /\ transition.nav = <<[call |-> "$$transitionTo", to |-> transition.to]>>
          /\ \/ /\ transition.status = "authorized"
                /\ Accepted
                /\ transition.events[Len(transition.events)] = "$stateChangePermissionAccepted"
             \/ /\ transition.status = "delegated"
                /\ deferred.st = "unset"
                /\ allSt.except = "none"
                /\ transition.events = <<"$stateChangeStart", "$stateChangePermissionStart">>
    /\ transition.status \in {"authorized", "delegated"} => Delegations # {}
    /\ transition.status = "cancelled" =>
          /\ transition.nav = <<>>
          /\ deferred.st = "unset"
          /\ allSt.except = "none"
          /\ transition.events = <<"$stateChangeStart">>
    /\ Rejected => Delegations = {}
    /\ Broadcasts("$stateChangePermissionAccepted") + Broadcasts("$stateChangePermissionDenied") <= 1
    /\ Broadcasts("$stateChangePermissionAccepted") = 1 => Accepted
    /\ Broadcasts("$stateChangePermissionDenied") = 1 => Rejected

C26_Witness ==
    /\ transition.status = "authorized"
    /\ Len(map.only) = 2
    /\ Len(map.except) = 1
    /\ Broadcasts("$stateChangePermissionAccepted") = 1
    /\ Delegations = {1}

----------------------------------------------------------------------------
(* C24..C25: two calls at once *)

CallIds == {1, 2}

\* the deferred of call c, running or put aside
CallDeferred(c) == IF other.id = c THEN other.deferred ELSE deferred

\* authorize on the map, run alone, accepts
AcceptsAlone == ~SeqOk(map.except) /\ (Len(map.only) = 0 \/ SeqOk(map.only))

\* the names authorize on the map, run alone, can reject with: a validating
\* name of the first except group when every except group validates, else a
\* name of the first only group that fails
RejectsAloneWith ==
    IF SeqOk(map.except)
    THEN {map.except[1][k] : k \in {h \in 1..Len(map.except[1]) : Validates(map.except[1][h])}}
    ELSE LET failing == {i \in 1..Len(map.only) : ~GroupOk(map.only[i])}
         IN  UNION {{map.only[i][k] : k \in 1..Len(map.only[i])} :
                        i \in {h \in failing : \A j \in failing : h <= j}}

\* C24: the map two calls evaluate at once stays the map it was, and each
\* call settles at most once, accepted exactly when a call alone is accepted
\* and rejected with a name a call alone can be rejected with
C24_RuleSetReadOnly ==
    /\ map = other.ruleSet
    /\ \A c \in CallIds :
          /\ CallDeferred(c).calls <= 1
          /\ CallDeferred(c).st = "resolved" => AcceptsAlone
          /\ CallDeferred(c).st = "rejected" =>
                /\ ~AcceptsAlone
                /\ CallDeferred(c).val.t = "name"
                /\ CallDeferred(c).val.v[1] \in RejectsAloneWith

\* both calls rejected, each with the name that failed last in its own evaluation
C24_Witness ==
    /\ Len(map.only) = 2
    /\ CallDeferred(1) = [st |-> "rejected", val |-> NameVal("b"), calls |-> 1]
    /\ CallDeferred(2) = [st |-> "rejected", val |-> NameVal("a"), calls |-> 1]

\* the transition record of call c, running or put aside
CallTransition(c) == IF other.id = c THEN other.transition ELSE transition

\* C25 (as claimed): every transition a call delegates goes to the state
\* that call asked for, and a state is entered only through a call for it
\* that was accepted or whose permission start event was prevented
C25_DelegatesOwnState ==
    \A c \in CallIds : \A j \in 1..Len(CallTransition(c).nav) :
        CallTransition(c).nav[j].call = "$$transitionTo" =>
            /\ CallTransition(c).nav[j].to = CallTransition(c).to
            /\ \E d \in CallIds :
                  /\ CallTransition(d).to = CallTransition(c).nav[j].to
                  /\ CallTransition(d).status \in {"authorized", "delegated"}

----------------------------------------------------------------------------
(* C27: termination *)

\* C27: when every started validation settles and every queued callback
\* runs, a call of authorizeByPermissionMap ends accepted or rejected
C27_AuthorizeSettles == (deferred.st = "pending") ~> (Accepted \/ Rejected)

\* a rejection reached once an except group and two only groups have been evaluated
C27_Witness ==
    /\ Rejected
    /\ Len(map.except) = 1
    /\ Len(map.only) = 2
    /\ allSt.only = "rejected"
    /\ chain.only.started = 2
    /\ Len(chain.only.order[2]) = 2
    /\ Len(chain.except.order[1]) = 1

====
